---- MODULE Spec2Model ----
(***************************************************************************)
(* HRMS API (src/main.py): the document collections useraccount,          *)
(* department, employee, leaverequest and notification, and the request    *)
(* handlers that read and write them.  Every handler runs to completion    *)
(* before the next request starts.                                         *)
(***************************************************************************)
EXTENDS Integers, Sequences, FiniteSets, TLC

\* ---------------------------------------------------------------- bounds
MaxUsers == 3       \* useraccount documents ever created in one behaviour
MaxDepts == 1       \* department documents ever created
MaxLeaves == 1      \* leaverequest documents ever created
MaxNotif == 6       \* notification documents ever created

\* ---------------------------------------------------------------- values
\* Identifier-typed values are pairs.  <<collection, n>> is the identifier
\* of the n-th document the store created in that collection (identifiers
\* are unique across collections and never reused); the others are what a
\* caller can send in place of an identifier.
None == <<"None", 0>>        \* Python None: the field or credential is absent
EmptyStr == <<"", 0>>        \* the empty string (falsy, and no ObjectId)
BadId == <<"bad", 0>>        \* a non-empty string that is not an ObjectId
Stale == <<"stale", 0>>      \* a well-formed ObjectId that names no document
NoneS == "None"              \* Python None in a text-typed field

Roles == {"HR", "Manager", "Employee"}
SeedEmails == {"a@x", "b@x"}
StaffEmails == {"b@x", "c@x"}

VARIABLES useraccount, department, employee, leaverequest, notification,
          nextId, req, resp

\* req is the last request (handler, bearer credential, path identifier,
\* body or query) and resp the response to it (status code, error detail,
\* items returned).
vars == <<useraccount, department, employee, leaverequest, notification,
          nextId, req, resp>>
db == <<useraccount, department, employee, leaverequest, notification, nextId>>

\* ---------------------------------------------------------------- helpers
\* Python truthiness of an Optional[str] identifier field.
Truthy(v) == v # None /\ v # EmptyStr

\* to_object_id succeeds exactly on well-formed identifiers.
ValidObjectId(s) == s \notin {None, EmptyStr, BadId}

\* What a caller sends: a bearer credential, a path identifier, and the
\* references and texts of a payload.
Tokens == {None, BadId, Stale} \cup DOMAIN useraccount
Callers == {None, Stale} \cup DOMAIN useraccount
UserPathIds == {BadId, Stale} \cup DOMAIN useraccount
LeavePathIds == {BadId, Stale} \cup DOMAIN leaverequest
LeaveActionPayloads == {[action |-> "Approve", comment |-> NoneS],
                        [action |-> "Reject", comment |-> "c"]}
StatusFilters == {NoneS, "", "Approved"}

\* create_document: insert under a fresh identifier.
NewId(coll) == <<coll, nextId[coll]>>
Bump(n, coll) == [n EXCEPT ![coll] = @ + 1]
Insert(coll, id, doc) == coll @@ (id :> doc)
Remove(coll, id) == [k \in DOMAIN coll \ {id} |-> coll[k]]

\* get_current_user: None for a guest, else the account the bearer names.
get_current_user(token) ==
    IF token = None THEN [code |-> 200, detail |-> "", user |-> None]
    ELSE IF ~ValidObjectId(token)
         THEN [code |-> 400, detail |-> "Invalid id", user |-> None]
    ELSE IF token \notin DOMAIN useraccount
         THEN [code |-> 401, detail |-> "Invalid token", user |-> None]
    ELSE [code |-> 200, detail |-> "", user |-> token]

RoleOf(u) == IF u \in DOMAIN useraccount THEN useraccount[u].role ELSE NoneS

\* find_one({"email": e}) on useraccount
EmailExistsNever(e) == FALSE

EmailExists(e) == \E u \in DOMAIN useraccount : useraccount[u].email = e

\* A handler that raises: the response is the error and nothing is written.
Raise(code, detail) == /\ resp' = [code |-> code, detail |-> detail, body |-> {}]
                       /\ UNCHANGED db

Request(op, token, id, body) ==
    req' = [op |-> op, token |-> token, id |-> id, body |-> body]

Reply(code, detail, body) == resp' = [code |-> code, detail |-> detail, body |-> body]

\* find_one / update_one / delete_one on employee by {"user_id": u}: the
\* first matching document in store order.
EmpOf(u) == {e \in DOMAIN employee : employee[e].user_id = u}
FirstEmp(u) == CHOOSE e \in EmpOf(u) : \A f \in EmpOf(u) : e[2] <= f[2]

\* update_employee: the profile after $set of the supplied (non-None) fields
\* other than full_name.
ApplyUpdatesAll(old, p) ==
    [user_id |-> old.user_id, department_id |-> p.department_id,
     designation |-> p.designation, manager_user_id |-> p.manager_user_id]

ApplyUpdates(old, p) ==
    [user_id |-> old.user_id,
     department_id |-> IF p.department_id # None
                       THEN p.department_id ELSE old.department_id,
     designation |-> IF p.designation # NoneS
                     THEN p.designation ELSE old.designation,
     manager_user_id |-> IF p.manager_user_id # None
                         THEN p.manager_user_id ELSE old.manager_user_id]

\* delete_employee: the employee collection after delete_one({"user_id": u}).
DeleteEmployeeDocSkipped(u) == employee

DeleteEmployeeDoc(u) ==
    IF EmpOf(u) # {} THEN Remove(employee, FirstEmp(u)) ELSE employee

\* submit_leave: the approving manager.  The employee's own manager if
\* truthy, else the manager of the employee's department, else None.
ResolveManagerDeptFirst(user) ==
    LET emp == employee[FirstEmp(user)] IN
    IF EmpOf(user) # {} /\ Truthy(emp.department_id)
       /\ emp.department_id \in DOMAIN department
    THEN department[emp.department_id].manager_id
    ELSE IF EmpOf(user) # {} /\ Truthy(emp.manager_user_id) THEN emp.manager_user_id
    ELSE None

ResolveManager(user) ==
    LET emp == employee[FirstEmp(user)] IN
    IF EmpOf(user) # {} /\ Truthy(emp.manager_user_id) THEN emp.manager_user_id
    ELSE IF EmpOf(user) # {} /\ Truthy(emp.department_id)
         THEN IF emp.department_id \in DOMAIN department
              THEN department[emp.department_id].manager_id ELSE None
    ELSE None

\* submit_leave: the department lookup raises on a malformed department_id.
DeptLookupRaises(user) ==
    LET emp == employee[FirstEmp(user)] IN
    /\ EmpOf(user) # {}
    /\ ~Truthy(emp.manager_user_id)
    /\ Truthy(emp.department_id)
    /\ ~ValidObjectId(emp.department_id)

\* submit_leave: the notifications it creates, HR first.
NoteHR(title, entity_id) ==
    [user_id |-> None, audience |-> "HR", title |-> title, entity_id |-> entity_id]
NoteUser(user_id, title, entity_id) ==
    [user_id |-> user_id, audience |-> NoneS, title |-> title, entity_id |-> entity_id]

SubmitNotesIfNotNone(manager_user_id, lr_id) ==
    IF manager_user_id # None
    THEN <<NoteHR("New Leave Request", lr_id),
           NoteUser(manager_user_id, "Approval Needed", lr_id)>>
    ELSE <<NoteHR("New Leave Request", lr_id)>>

SubmitNotes(manager_user_id, lr_id) ==
    IF Truthy(manager_user_id)
    THEN <<NoteHR("New Leave Request", lr_id),
           NoteUser(manager_user_id, "Approval Needed", lr_id)>>
    ELSE <<NoteHR("New Leave Request", lr_id)>>

\* act_on_leave: the status an action sets.
DecisionStatusTypo(action) == IF action = "Approved" THEN "Approved" ELSE "Rejected"

DecisionStatus(action) == IF action = "Approve" THEN "Approved" ELSE "Rejected"

\* list_leaves: the documents find(query) returns.
LeaveQueryManagerAsEmployee(user, status) ==
    {l \in DOMAIN leaverequest :
        /\ RoleOf(user) \in {"Employee", "Manager"}
              => leaverequest[l].employee_user_id = user
        /\ (status # NoneS /\ status # "") => leaverequest[l].status = status}

LeaveQuery(user, status) ==
    {l \in DOMAIN leaverequest :
        /\ RoleOf(user) = "Employee" => leaverequest[l].employee_user_id = user
        /\ RoleOf(user) = "Manager" => leaverequest[l].manager_user_id = user
        /\ (status # NoneS /\ status # "") => leaverequest[l].status = status}

Init == /\ useraccount = <<>>
        /\ department = <<>>
        /\ employee = <<>>
        /\ leaverequest = <<>>
        /\ notification = <<>>
        /\ nextId = [c \in {"useraccount", "department", "employee", "leaverequest"} |-> 1]
        /\ req = [op |-> "none", token |-> None, id |-> None, body |-> <<>>]
        /\ resp = [code |-> 200, detail |-> "", body |-> {}]

\* ---------------------------------------------------------------- handlers
\* POST /seed/user
seed_user(email, full_name, role) ==
    /\ Request("seed_user", None, None,
               [email |-> email, full_name |-> full_name, role |-> role])
    /\ IF EmailExists(email)
       THEN /\ Reply(200, "exists", {})
            /\ UNCHANGED db
       ELSE /\ nextId["useraccount"] <= MaxUsers
            /\ useraccount' = Insert(useraccount, NewId("useraccount"),
                   [email |-> email, full_name |-> full_name, role |-> role])
            /\ nextId' = Bump(nextId, "useraccount")
            /\ Reply(200, "created", {})
            /\ UNCHANGED <<department, employee, leaverequest, notification>>

\* POST /departments
create_department(token, manager_id) ==
    LET a == get_current_user(token) IN
    /\ Request("create_department", token, None, [manager_id |-> manager_id])
    /\ IF a.code # 200 THEN Raise(a.code, a.detail)
       ELSE IF a.user = None \/ RoleOf(a.user) # "HR" THEN Raise(403, "HR only")
       ELSE /\ nextId["department"] <= MaxDepts
            /\ department' = Insert(department, NewId("department"),
                   [manager_id |-> manager_id])
            /\ nextId' = Bump(nextId, "department")
            /\ Reply(200, "", {})
            /\ UNCHANGED <<useraccount, employee, leaverequest, notification>>

\* POST /employees
create_employee(token, email, full_name, department_id, designation, manager_user_id) ==
    LET a == get_current_user(token) IN
    /\ Request("create_employee", token, None,
               [email |-> email, full_name |-> full_name,
                department_id |-> department_id, designation |-> designation,
                manager_user_id |-> manager_user_id])
    /\ IF a.code # 200 THEN Raise(a.code, a.detail)
       ELSE IF a.user = None \/ RoleOf(a.user) # "HR" THEN Raise(403, "HR only")
       ELSE IF EmailExists(email) THEN Raise(400, "Email already exists")
       ELSE /\ nextId["useraccount"] <= MaxUsers
            /\ useraccount' = Insert(useraccount, NewId("useraccount"),
                   [email |-> email, full_name |-> full_name, role |-> "Employee"])
            /\ employee' = Insert(employee, NewId("employee"),
                   [user_id |-> NewId("useraccount"), department_id |-> department_id,
                    designation |-> designation, manager_user_id |-> manager_user_id])
            /\ nextId' = Bump(Bump(nextId, "useraccount"), "employee")
            /\ Reply(200, "", {})
            /\ UNCHANGED <<department, leaverequest, notification>>

\* PUT /employees/{user_id}
update_employee(token, user_id, p) ==
    LET a == get_current_user(token)
        setName == p.full_name # NoneS
        setEmp == p.department_id # None \/ p.designation # NoneS
                  \/ p.manager_user_id # None
    IN
    /\ Request("update_employee", token, user_id, p)
    /\ IF a.code # 200 THEN Raise(a.code, a.detail)
       ELSE IF a.user = None \/ RoleOf(a.user) \notin {"HR", "Manager"}
            THEN Raise(403, "Forbidden")
       ELSE IF setName /\ ~ValidObjectId(user_id) THEN Raise(400, "Invalid id")
       ELSE /\ useraccount' =
                   IF setName /\ user_id \in DOMAIN useraccount
                   THEN [useraccount EXCEPT ![user_id].full_name = p.full_name]
                   ELSE useraccount
            /\ employee' =
                   IF setEmp /\ EmpOf(user_id) # {}
                   THEN [employee EXCEPT ![FirstEmp(user_id)] = ApplyUpdates(@, p)]
                   ELSE employee
            /\ Reply(200, "", {})
            /\ UNCHANGED <<department, leaverequest, notification, nextId>>

\* DELETE /employees/{user_id}
delete_employee(token, user_id) ==
    LET a == get_current_user(token) IN
    /\ Request("delete_employee", token, user_id, <<>>)
    /\ IF a.code # 200 THEN Raise(a.code, a.detail)
       ELSE IF a.user = None \/ RoleOf(a.user) # "HR" THEN Raise(403, "HR only")
       ELSE /\ employee' = DeleteEmployeeDoc(user_id)
            /\ IF ~ValidObjectId(user_id)
               THEN /\ Reply(400, "Invalid id", {})
                    /\ UNCHANGED useraccount
               ELSE /\ useraccount' = IF user_id \in DOMAIN useraccount
                                      THEN Remove(useraccount, user_id)
                                      ELSE useraccount
                    /\ Reply(200, "", {})
            /\ UNCHANGED <<department, leaverequest, notification, nextId>>

\* POST /leaves
submit_leave(token) ==
    LET a == get_current_user(token)
        user == a.user
        manager_user_id == ResolveManager(user)
        lr_id == NewId("leaverequest")
        notes == SubmitNotes(manager_user_id, lr_id)
    IN
    /\ Request("submit_leave", token, None, <<>>)
    /\ IF a.code # 200 THEN Raise(a.code, a.detail)
       ELSE IF user = None \/ RoleOf(user) \notin {"Employee", "Manager", "HR"}
            THEN Raise(401, "Unauthorized")
       ELSE IF DeptLookupRaises(user) THEN Raise(400, "Invalid id")
       ELSE /\ nextId["leaverequest"] <= MaxLeaves
            /\ Len(notification) + Len(notes) <= MaxNotif
            /\ leaverequest' = Insert(leaverequest, lr_id,
                   [employee_user_id |-> user, manager_user_id |-> manager_user_id,
                    status |-> "Pending", manager_comment |-> NoneS,
                    updated_at |-> FALSE])
            /\ notification' = notification \o notes
            /\ nextId' = Bump(nextId, "leaverequest")
            /\ Reply(200, "", {})
            /\ UNCHANGED <<useraccount, department, employee>>

\* POST /leaves/{leave_id}/action
act_on_leave(token, leave_id, action, comment) ==
    LET a == get_current_user(token)
        status == DecisionStatus(action)
        lr == leaverequest[leave_id]
    IN
    /\ Request("act_on_leave", token, leave_id, [action |-> action, comment |-> comment])
    /\ IF a.code # 200 THEN Raise(a.code, a.detail)
       ELSE IF a.user = None \/ RoleOf(a.user) \notin {"Manager", "HR"}
            THEN Raise(403, "Forbidden")
       ELSE IF ~ValidObjectId(leave_id) THEN Raise(400, "Invalid id")
       ELSE IF leave_id \notin DOMAIN leaverequest THEN Raise(404, "Leave not found")
       ELSE /\ Len(notification) + 2 <= MaxNotif
            /\ leaverequest' = [leaverequest EXCEPT ![leave_id] =
                   [employee_user_id |-> lr.employee_user_id,
                    manager_user_id |-> lr.manager_user_id,
                    status |-> status, manager_comment |-> comment,
                    updated_at |-> TRUE]]
            /\ notification' = notification \o
                   <<NoteUser(lr.employee_user_id, "Leave " \o status, leave_id),
                     NoteHR("Leave " \o status, leave_id)>>
            /\ Reply(200, "", {})
            /\ UNCHANGED <<useraccount, department, employee, nextId>>

\* GET /leaves
list_leaves(token, status) ==
    LET a == get_current_user(token) IN
    /\ Request("list_leaves", token, None, [status |-> status])
    /\ IF a.code # 200 THEN Raise(a.code, a.detail)
       ELSE IF a.user = None THEN Raise(401, "Unauthorized")
       ELSE /\ Reply(200, "", LeaveQuery(a.user, status))
            /\ UNCHANGED db

\* ---------------------------------------------------------------- Spec
\* The directory: accounts, departments and employee profiles, from the
\* empty store.
DesignationOnly == [full_name |-> NoneS, department_id |-> None,
                    designation |-> "d2", manager_user_id |-> None]

Next ==
    \/ \E e \in SeedEmails, r \in Roles : seed_user(e, "n1", r)
    \/ \E t \in Tokens : create_department(t, None)
    \/ \E t \in Tokens, e \in StaffEmails :
          create_employee(t, e, "n1", None, NoneS, None)
    \/ \E t \in Tokens, u \in UserPathIds : update_employee(t, u, DesignationOnly)
    \/ \E t \in Tokens, u \in UserPathIds : delete_employee(t, u)

Spec == Init /\ [][Next]_vars

\* ---------------------------------------------------------------- SpecUpdate
\* Partial updates: one HR account, up to two employees, and every
\* combination of supplied and omitted fields.
Unsupplied == [full_name |-> NoneS, department_id |-> None,
               designation |-> NoneS, manager_user_id |-> None]
UpdPayloads ==
    { Unsupplied,
      [Unsupplied EXCEPT !.full_name = "n2"],
      [Unsupplied EXCEPT !.department_id = Stale],
      [Unsupplied EXCEPT !.designation = "d2"],
      [Unsupplied EXCEPT !.manager_user_id = EmptyStr],
      [full_name |-> "n2", department_id |-> Stale,
       designation |-> "d2", manager_user_id |-> EmptyStr] }

UpdCallers == {None} \cup {t \in DOMAIN useraccount : useraccount[t].role = "HR"}

NextUpdate ==
    \/ seed_user("a@x", "n1", "HR")
    \/ \E t \in DOMAIN useraccount :
          \/ create_employee(t, "b@x", "n1", None, NoneS, None)
          \/ create_employee(t, "c@x", "n1", BadId, "d1", t)
    \/ \E t \in UpdCallers, u \in UserPathIds, p \in UpdPayloads :
          update_employee(t, u, p)

SpecUpdate == Init /\ [][NextUpdate]_vars

\* ---------------------------------------------------------------- SpecLeave
\* The leave workflow over a seeded directory: an HR account, a Manager
\* account, a department and one employee created by HR.  The seeds cover
\* the manager resolution: the employee names a manager directly (and the
\* department another), or names none and has no department, a malformed
\* or unknown department reference, or a department with or without a
\* manager.
hr == <<"useraccount", 1>>
mgr == <<"useraccount", 2>>
worker == <<"useraccount", 3>>
dept == <<"department", 1>>

InitLeave ==
    /\ useraccount = (hr :> [email |-> "a@x", full_name |-> "n1", role |-> "HR"])
                  @@ (mgr :> [email |-> "b@x", full_name |-> "n1", role |-> "Manager"])
                  @@ (worker :> [email |-> "c@x", full_name |-> "n1", role |-> "Employee"])
    /\ \E dm \in {None, EmptyStr, hr, mgr}, d \in {None, BadId, Stale, dept},
          m \in {None, EmptyStr, mgr} :
          /\ m = mgr => (d = dept /\ dm = hr)
          /\ m = EmptyStr => (d = dept /\ dm = mgr)
          /\ d # dept => dm = hr
          /\ department = (dept :> [manager_id |-> dm])
          /\ employee = (<<"employee", 1>> :>
                            [user_id |-> worker, department_id |-> d,
                             designation |-> NoneS, manager_user_id |-> m])
    /\ nextId = [useraccount |-> 4, department |-> 2, employee |-> 2, leaverequest |-> 1]
    /\ leaverequest = <<>>
    /\ notification = <<>>
    /\ req = [op |-> "none", token |-> None, id |-> None, body |-> <<>>]
    /\ resp = [code |-> 200, detail |-> "", body |-> {}]

NextLeave ==
    \/ \E t \in Callers : submit_leave(t)
    \/ \E t \in Callers, l \in LeavePathIds, p \in LeaveActionPayloads :
          act_on_leave(t, l, p.action, p.comment)
    \/ \E t \in Callers, f \in StatusFilters : list_leaves(t, f)

SpecLeave == InitLeave /\ [][NextLeave]_vars

\* ================================================================ claims
\* The notifications a step appended, and whether it only appended.
Appended == SubSeq(notification', Len(notification) + 1, Len(notification'))
OnlyAppends == /\ Len(notification') >= Len(notification)
               /\ SubSeq(notification', 1, Len(notification)) = notification
NewLeaves == DOMAIN leaverequest' \ DOMAIN leaverequest
OldLeavesKept == \A l \in DOMAIN leaverequest :
                    l \in DOMAIN leaverequest' /\ leaverequest'[l] = leaverequest[l]
IsHRBroadcast(n) == n.audience = "HR" /\ n.user_id = None
IsDirectedAt(n, u) == n.user_id = u /\ n.audience = NoneS
Count(seq, P(_)) == Cardinality({i \in DOMAIN seq : P(seq[i])})
Authorised(token, roles) == token \in DOMAIN useraccount /\ useraccount[token].role \in roles

\* ---------------------------------------------------------------- C1
\* C1: a leave request starts as Pending and, once it is Approved or
\* Rejected, no later operation changes its status.
C1_TerminalStatusIsFinal ==
    [][/\ \A l \in NewLeaves : leaverequest'[l].status = "Pending"
       /\ \A l \in DOMAIN leaverequest :
             leaverequest[l].status \in {"Approved", "Rejected"}
                 => /\ l \in DOMAIN leaverequest'
                    /\ leaverequest'[l].status = leaverequest[l].status]_vars

\* ---------------------------------------------------------------- C2
\* C2: a successful submit_leave stores exactly one new leave request, with
\* status Pending, and appends exactly one HR broadcast plus exactly one
\* notification directed at the resolved manager iff a manager was resolved
\* (two notifications with a manager, one without); nothing else is created
\* or changed.
C2_SubmitStep ==
    LET l == CHOOSE x \in NewLeaves : TRUE
        m == leaverequest'[l].manager_user_id
        resolved == Truthy(m)
        IsHR(n) == IsHRBroadcast(n) /\ n.entity_id = l
        IsMgr(n) == IsDirectedAt(n, m) /\ n.entity_id = l
    IN
    /\ Cardinality(NewLeaves) = 1
    /\ leaverequest'[l].status = "Pending"
    /\ OldLeavesKept
    /\ OnlyAppends
    /\ Len(Appended) = IF resolved THEN 2 ELSE 1
    /\ Count(Appended, IsHR) = 1
    /\ Count(Appended, IsMgr) = IF resolved THEN 1 ELSE 0
    /\ UNCHANGED <<useraccount, department, employee>>

C2_SubmitCreatesOneLeaveAndNotifies ==
    [][(req'.op = "submit_leave" /\ resp'.code = 200) => C2_SubmitStep]_vars

\* A submission with a resolved manager has produced its two notifications.
C2_Witness ==
    /\ req.op = "submit_leave" /\ resp.code = 200
    /\ Len(notification) = 2
    /\ \E l \in DOMAIN leaverequest : leaverequest[l].manager_user_id = mgr

\* ---------------------------------------------------------------- C3
\* C3: the manager stored on a submitted leave request is (a) the
\* submitter's Employee.manager_user_id if set, else (b) the manager_id of
\* the Department the submitter's Employee.department_id references, else
\* (c) null: no Employee record, no department_id, a department_id matching
\* no Department, or a Department without manager_id.
C3_Expected(u) ==
    LET recs == {employee[e] : e \in {x \in DOMAIN employee : employee[x].user_id = u}} IN
    IF recs = {} THEN None
    ELSE LET r == CHOOSE x \in recs : TRUE IN
         CASE r.manager_user_id \notin {None, EmptyStr} -> r.manager_user_id
           [] r.manager_user_id \in {None, EmptyStr}
              /\ r.department_id \in DOMAIN department
                -> department[r.department_id].manager_id
           [] OTHER -> None

C3_ManagerPrecedence ==
    [][(req'.op = "submit_leave" /\ resp'.code = 200) =>
          \A l \in NewLeaves :
             leaverequest'[l].manager_user_id
                = C3_Expected(leaverequest'[l].employee_user_id)]_vars

\* A request whose manager came from the department: the employee names no
\* manager and the department does.
C3_Witness ==
    /\ req.op = "submit_leave" /\ resp.code = 200
    /\ \E l \in DOMAIN leaverequest, e \in DOMAIN employee :
          /\ employee[e].user_id = leaverequest[l].employee_user_id
          /\ ~Truthy(employee[e].manager_user_id)
          /\ employee[e].department_id = dept
          /\ Truthy(department[dept].manager_id)
          /\ leaverequest[l].manager_user_id = department[dept].manager_id

\* ---------------------------------------------------------------- C4
\* What a successful act_on_leave does to request l of submitter s.
C4_Decided(l, action) ==
    LET want == IF action = "Approve" THEN "Approved" ELSE "Rejected"
        s == leaverequest[l].employee_user_id
        Carries(n) == n.title = "Leave " \o want /\ n.entity_id = l
        ToSubmitter(n) == IsDirectedAt(n, s) /\ Carries(n)
        ToHR(n) == IsHRBroadcast(n) /\ Carries(n)
    IN
    /\ l \in DOMAIN leaverequest
    /\ leaverequest'[l].status = want
    /\ DOMAIN leaverequest' = DOMAIN leaverequest
    /\ \A k \in DOMAIN leaverequest \ {l} : leaverequest'[k] = leaverequest[k]
    /\ OnlyAppends
    /\ Len(Appended) = 2
    /\ Count(Appended, ToSubmitter) = 1
    /\ Count(Appended, ToHR) = 1
    /\ \A i \in DOMAIN Appended :
          Appended[i].user_id = leaverequest[l].manager_user_id
             => leaverequest[l].manager_user_id \in {None, s}

\* The request reached the lookup (the caller is a Manager or HR) and its
\* leave id matches no stored request.
C4_NoSuchLeave ==
    /\ req'.op = "act_on_leave"
    /\ Authorised(req'.token, {"Manager", "HR"})
    /\ req'.id \notin DOMAIN leaverequest

C5_OnlyResolvedManagerOrHR ==
    [][(req'.op = "act_on_leave" /\ leaverequest' # leaverequest) =>
          \/ Authorised(req'.token, {"HR"})
          \/ /\ req'.id \in DOMAIN leaverequest
             /\ req'.token = leaverequest[req'.id].manager_user_id]_vars

\* ---------------------------------------------------------------- C10
\* C10: list_leaves returns exactly the stored requests in the caller's
\* scope (Employee: submitted by the caller; Manager: the caller is the
\* stored manager; HR: all), restricted to the status filter when one is
\* given (a non-empty status); it changes no record, and a guest is
\* rejected with Unauthorized.
C10_Scope(t) ==
    CASE useraccount[t].role = "Employee" ->
            {l \in DOMAIN leaverequest : leaverequest[l].employee_user_id = t}
      [] useraccount[t].role = "Manager" ->
            {l \in DOMAIN leaverequest : leaverequest[l].manager_user_id = t}
      [] useraccount[t].role = "HR" -> DOMAIN leaverequest

C10_ListLeaves ==
    [][req'.op = "list_leaves" =>
          LET t == req'.token
              f == req'.body.status
          IN
          /\ UNCHANGED db
          /\ t = None => (resp'.code = 401 /\ resp'.detail = "Unauthorized")
          /\ t \in DOMAIN useraccount =>
                /\ resp'.code = 200
                /\ resp'.body = IF f \in {NoneS, ""} THEN C10_Scope(t)
                                ELSE {l \in C10_Scope(t) : leaverequest[l].status = f}]_vars

\* A Manager listed the approved requests and got the one it is the stored
\* manager of.
C10_Witness ==
    /\ req.op = "list_leaves" /\ resp.code = 200
    /\ req.token = mgr
    /\ req.body.status = "Approved"
    /\ resp.body # {}
    /\ \A l \in resp.body : leaverequest[l].manager_user_id = mgr

\* ---------------------------------------------------------------- C6
\* C6: create_department, create_employee, update_employee and
\* delete_employee require the HR role: a guest, a Manager or an Employee
\* is rejected and no department, employee or account record changes.
C6_DirectoryWritesNeedHR ==
    [][(/\ req'.op \in {"create_department", "create_employee",
                        "update_employee", "delete_employee"}
        /\ \/ req'.token = None
           \/ Authorised(req'.token, {"Manager", "Employee"}))
          => /\ resp'.code # 200
             /\ UNCHANGED <<useraccount, department, employee>>]_vars

\* ---------------------------------------------------------------- C7
\* C7: no two accounts share an email; a seed_user or create_employee call
\* whose email already belongs to an account creates no account and no
\* employee, and create_employee reports the duplicate as an error.
C7_UniqueEmails ==
    \A u, v \in DOMAIN useraccount :
        useraccount[u].email = useraccount[v].email => u = v

C7_Taken(e) == \E u \in DOMAIN useraccount : useraccount[u].email = e

C7_EmailUniqueness ==
    [][/\ C7_UniqueEmails'
       /\ (req'.op = "seed_user" /\ C7_Taken(req'.body.email))
             => UNCHANGED <<useraccount, employee>>
       /\ (req'.op = "create_employee" /\ C7_Taken(req'.body.email))
             => /\ UNCHANGED <<useraccount, employee>>
                /\ resp'.code >= 400
                /\ Authorised(req'.token, {"HR"})
                      => resp'.detail = "Email already exists"]_vars

\* HR was refused a second account for an email in use.
C7_Witness ==
    /\ req.op = "create_employee"
    /\ resp.code = 400 /\ resp.detail = "Email already exists"
    /\ Cardinality(DOMAIN useraccount) >= 2

\* ---------------------------------------------------------------- C8
\* C8: a successful create_employee with a new email adds exactly one
\* account and exactly one employee whose user_id is that account; a
\* successful delete_employee removes the employee and its account; so
\* every employee's user_id names an existing account and no two employees
\* share a user_id.
C8_Paired ==
    /\ \A e \in DOMAIN employee : employee[e].user_id \in DOMAIN useraccount
    /\ \A e, f \in DOMAIN employee :
          employee[e].user_id = employee[f].user_id => e = f

C8_Created ==
    LET us == DOMAIN useraccount' \ DOMAIN useraccount
        es == DOMAIN employee' \ DOMAIN employee
    IN
    /\ Cardinality(us) = 1
    /\ Cardinality(es) = 1
    /\ \A e \in es : employee'[e].user_id \in us
    /\ \A u \in DOMAIN useraccount :
          u \in DOMAIN useraccount' /\ useraccount'[u] = useraccount[u]
    /\ \A e \in DOMAIN employee :
          e \in DOMAIN employee' /\ employee'[e] = employee[e]

C8_Deleted(u) ==
    /\ u \notin DOMAIN useraccount'
    /\ \A e \in DOMAIN employee' : employee'[e].user_id # u
    /\ \A v \in DOMAIN useraccount \ {u} :
          v \in DOMAIN useraccount' /\ useraccount'[v] = useraccount[v]
    /\ \A e \in DOMAIN employee :
          employee[e].user_id # u => (e \in DOMAIN employee' /\ employee'[e] = employee[e])

C8_EmployeeAccountPairing ==
    [][/\ C8_Paired'
       /\ (req'.op = "create_employee" /\ resp'.code = 200)
             => (~C7_Taken(req'.body.email) /\ C8_Created)
       /\ (req'.op = "delete_employee" /\ resp'.code = 200)
             => C8_Deleted(req'.id)]_vars

\* An employee was created and deleted with its account while another
\* employee remains paired.
C8_Witness ==
    /\ req.op = "delete_employee" /\ resp.code = 200
    /\ nextId["employee"] = 3
    /\ Cardinality(DOMAIN employee) = 1
    /\ Cardinality(DOMAIN useraccount) = 2

\* ---------------------------------------------------------------- C9
\* C9: update_employee applies only the fields supplied with a non-null
\* value: full_name to the account, the others to the employee; a field
\* not supplied keeps its value, and no other employee or account changes.
C9_Applied(u, p) ==
    /\ DOMAIN useraccount' = DOMAIN useraccount
    /\ DOMAIN employee' = DOMAIN employee
    /\ \A v \in DOMAIN useraccount :
          /\ useraccount'[v].email = useraccount[v].email
          /\ useraccount'[v].role = useraccount[v].role
          /\ useraccount'[v].full_name =
                IF v = u /\ p.full_name # NoneS
                THEN p.full_name ELSE useraccount[v].full_name
    /\ \A e \in DOMAIN employee :
          LET mine == employee[e].user_id = u IN
          /\ employee'[e].user_id = employee[e].user_id
          /\ employee'[e].department_id =
                IF mine /\ p.department_id # None
                THEN p.department_id ELSE employee[e].department_id
          /\ employee'[e].designation =
                IF mine /\ p.designation # NoneS
                THEN p.designation ELSE employee[e].designation
          /\ employee'[e].manager_user_id =
                IF mine /\ p.manager_user_id # None
                THEN p.manager_user_id ELSE employee[e].manager_user_id
    /\ UNCHANGED <<department, leaverequest, notification, nextId>>

C9_PartialUpdate ==
    [][req'.op = "update_employee" =>
          IF resp'.code = 200 THEN C9_Applied(req'.id, req'.body)
          ELSE UNCHANGED db]_vars

\* An update has changed the designation of an employee whose department,
\* manager and name are still those it was created with.
C9_Witness ==
    /\ req.op = "update_employee" /\ resp.code = 200
    /\ req.body = [Unsupplied EXCEPT !.designation = "d2"]
    /\ \E e \in DOMAIN employee :
          /\ employee[e].designation = "d2"
          /\ employee[e].department_id = BadId
          /\ employee[e].manager_user_id \in DOMAIN useraccount
          /\ useraccount[employee[e].user_id].full_name = "n1"
====
